---- MODULE Spec2Model ----
(***************************************************************************)
(* Model of exercises.py of FromSamToGarm: the conversion of Samsung       *)
(* Health exercise sessions (summary row, location samples, live samples)  *)
(* into one TCX document per session.                                      *)
(*                                                                         *)
(* Representation of the Python values:                                    *)
(*  - a dict is a function whose DOMAIN is the set of its keys;            *)
(*  - a timestamp is an integer number of milliseconds;                    *)
(*  - a heart rate read from JSON is a float; it is carried in half beats  *)
(*    (the integer h stands for h/2 bpm), so int() really truncates;       *)
(*  - a numeric CSV string is a tuple: <<>> is "", <<w, t>> is the decimal *)
(*    literal "w.t" and <<w>> the integer literal "w";                     *)
(*  - an XML element is [tag, text, children].                             *)
(***************************************************************************)
EXTENDS Integers, Sequences, FiniteSets, TLC

VARIABLES
    exercises,      \* the list returned by fetch_exercise_list()
    disk,           \* per session: the two JSON files under jsons/
    idx,            \* position of the driver loop in exercises (ex = exercises[idx])
    pc,             \* control position of the program
    lap,            \* prepare_exercise_data: the <Lap> element
    live_data,      \* prepare_exercise_data: local live_data (mutated by the merge)
    location_data,  \* prepare_exercise_data: local location_data
    data,           \* prepare_exercise_data: the merged mapping
    trackpoints,    \* prepare_exercise_data: list of trackpoints (None included)
    xml,            \* the serialized document of the current session
    exports,        \* the files written under exports/, by session
    call,           \* arguments of a directly called function
    ret             \* its return value

vars == <<exercises, disk, idx, pc, lap, live_data, location_data, data,
          trackpoints, xml, exports, call, ret>>

pipeline_vars == <<exercises, disk, idx, lap, live_data, location_data, data,
                   trackpoints, xml, exports>>

-----------------------------------------------------------------------------
(* Bounds of the model *)

\* timestamps are the multiples TickMs, ..., MaxTick * TickMs
TickMs == 500
MaxTick == 3
\* longest candidate list handed to find_nearest_time on its own
MaxCand == 3
\* most samples (location and live together) handed to the merge on its own
MaxSamples == 3
\* most sessions in the summary list
MaxSessions == 2
\* most observations handed to create_trackpoint on their own
MaxObs == 2

Times == {k * TickMs : k \in 1..MaxTick}

-----------------------------------------------------------------------------
(* Python helpers *)

None == [none |-> TRUE]

Abs(x) == IF x < 0 THEN -x ELSE x

Range(s) == {s[i] : i \in 1..Len(s)}

Min(S) == CHOOSE x \in S : \A y \in S : x <= y

Max(S) == CHOOSE x \in S : \A y \in S : x >= y

\* dict.get(key): the value, or a falsy default when the key is missing
HasKey(d, k) == k \in DOMAIN d

\* truthiness of a number
Truthy(v) == v # 0

\* data.get(k) used as a condition
GetTruthy(d, k) == HasKey(d, k) /\ Truthy(d[k])

\* d[k] = v on a dict
DictSet(d, k, v) == [x \in DOMAIN d \cup {k} |-> IF x = k THEN v ELSE d[x]]

RECURSIVE Insert(_, _)
Insert(x, s) ==
    IF s = <<>> THEN <<x>>
    ELSE IF x < Head(s) THEN <<x>> \o s
    ELSE <<Head(s)>> \o Insert(x, Tail(s))

\* sorted(): ascending, duplicates kept
RECURSIVE sorted(_)
sorted(s) == IF s = <<>> THEN <<>> ELSE Insert(Head(s), sorted(Tail(s)))

\* map(lambda d: d["start_time"], data)
StartTimes(seq) == [i \in 1..Len(seq) |-> seq[i].start_time]

-----------------------------------------------------------------------------
(* find_nearest_time *)

\* the for loop: closest is the best match so far
RECURSIVE ScanNearest(_, _, _)
ScanNearest(ts, timestamps, closest) ==
    IF timestamps = <<>> THEN closest
    ELSE LET t == Head(timestamps)
         IN  ScanNearest(ts, Tail(timestamps),
                         IF Abs(t - ts) < Abs(closest - ts) THEN t ELSE closest)

find_nearest_time(ts, d) == ScanNearest(ts, sorted(StartTimes(d)), 0)

-----------------------------------------------------------------------------
(* merge_location_and_live_data *)

MsPerSecond == 1000

\* fromtimestamp(ts / 1000, utc).strftime("%Y-%m-%dT%H:%M:%S.000Z"): the
\* whole seconds of ts, with the millisecond field fixed to 000
FormatTime(ts) == [sec |-> ts \div MsPerSecond, ms |-> 0]

\* int() of a non-negative float carried in half beats: truncation
IntOf(h) == h - (h % 2)

\* a heart_rate value int() cannot convert (it raises)
Malformed == -1

\* The merged mapping is a Python dict: [order, val], order being the keys in
\* iteration (insertion) order and val the observation of each key.
EmptyDict == [order |-> <<>>, val |-> <<>>]

Keys(m) == DOMAIN m.val

\* m[k] = v
Put(m, k, v) ==
    [order |-> IF k \in Keys(m) THEN m.order ELSE Append(m.order, k),
     val   |-> DictSet(m.val, k, v)]

\* the body of the first loop, for one location entry
SeedEntry(m, entry) ==
    IF entry.start_time \notin Keys(m)
    THEN LET base == [time      |-> FormatTime(entry.start_time),
                      latitude  |-> entry.latitude,
                      longitude |-> entry.longitude]
         IN  Put(m, entry.start_time,
                 IF HasKey(entry, "altitude")
                 THEN DictSet(base, "altitude", entry.altitude)
                 ELSE base)
    ELSE m

RECURSIVE SeedLoop(_, _)
SeedLoop(m, locationdata) ==
    IF locationdata = <<>> THEN m
    ELSE SeedLoop(SeedEntry(m, Head(locationdata)), Tail(locationdata))

LiveKeys == <<"distance", "cadence", "heart_rate", "speed">>

\* ShiftedTs without the test that location data exists
ShiftedTsAlways(m, locationdata, ts) ==
    IF ts \notin Keys(m)
    THEN find_nearest_time(ts, locationdata)
    ELSE ts

\* lines 324-329: the timestamp a live entry is stored under
ShiftedTs(m, locationdata, ts) ==
    IF ts \notin Keys(m) /\ locationdata # <<>>
    THEN find_nearest_time(ts, locationdata)
    ELSE ts

\* CoercedEntry without the write of the timestamp into the entry
CoercedEntryKeepsTimestamp(entry, ts) ==
    IF HasKey(entry, "heart_rate")
    THEN [entry EXCEPT !.heart_rate = IntOf(entry.heart_rate)]
    ELSE entry

\* lines 329 and 338: what the loop writes back into the entry
CoercedEntry(entry, ts) ==
    LET e1 == [entry EXCEPT !.start_time = ts]
    IN  IF HasKey(e1, "heart_rate")
        THEN [e1 EXCEPT !.heart_rate = IntOf(e1.heart_rate)]
        ELSE e1

\* WriteKey without the test that the key is not there yet
WriteKeyOverwrite(m, ts, entry, key) ==
    IF GetTruthy(entry, key)
    THEN Put(m, ts, DictSet(IF ts \in Keys(m) THEN m.val[ts]
                                              ELSE [time |-> FormatTime(ts)],
                            key, entry[key]))
    ELSE m

\* lines 343-353 for one key
WriteKey(m, ts, entry, key) ==
    IF GetTruthy(entry, key)
    THEN LET m1 == IF ts \notin Keys(m)
                   THEN Put(m, ts, DictSet([time |-> FormatTime(ts)], key, entry[key]))
                   ELSE m
         IN  IF ~HasKey(m1.val[ts], key)
             THEN Put(m1, ts, DictSet(m1.val[ts], key, entry[key]))
             ELSE m1
    ELSE m

RECURSIVE WriteKeys(_, _, _, _)
WriteKeys(m, ts, entry, keys) ==
    IF keys = <<>> THEN m
    ELSE WriteKeys(WriteKey(m, ts, entry, Head(keys)), ts, entry, Tail(keys))

\* int(entry["heart_rate"]) raises
EntryRaises(entry) == HasKey(entry, "heart_rate") /\ entry.heart_rate = Malformed

\* The second loop after its first n entries: the mapping and the (mutated)
\* list of live entries.
RECURSIVE LiveLoop(_, _, _, _)
LiveLoop(m, locationdata, livedata, n) ==
    IF n = 0 THEN [merged |-> m, livedata |-> livedata]
    ELSE LET prev  == LiveLoop(m, locationdata, livedata, n - 1)
             ts    == ShiftedTs(prev.merged, locationdata, livedata[n].start_time)
             entry == CoercedEntry(livedata[n], ts)
         IN  [merged   |-> WriteKeys(prev.merged, ts, entry, LiveKeys),
              livedata |-> [prev.livedata EXCEPT ![n] = entry]]

\* SortItems without the sort: the dict keeps its insertion order
SortItemsKeepOrder(m) == m

\* dict(sorted(merged_data.items())): same values, keys in ascending order
SortItems(m) == [order |-> sorted(m.order), val |-> m.val]

\* lines 358-363: the scan over the keys in dict order, hr the running value
RECURSIVE FillFrom(_, _, _)
FillFrom(m, keys, hr) ==
    IF keys = <<>> THEN m
    ELSE LET d == Head(keys)
         IN  IF GetTruthy(m.val[d], "heart_rate")
             THEN FillFrom(m, Tail(keys), m.val[d].heart_rate)
             ELSE FillFrom(Put(m, d, DictSet(m.val[d], "heart_rate", hr)),
                           Tail(keys), hr)

ForwardFill(m) == FillFrom(m, m.order, 0)

\* the index of the first live entry on which the merge raises, 0 if none
FirstRaising(livedata) ==
    IF \E i \in 1..Len(livedata) : EntryRaises(livedata[i])
    THEN Min({i \in 1..Len(livedata) : EntryRaises(livedata[i])})
    ELSE 0

\* the whole function, for inputs on which it does not raise
merge_location_and_live_data(locationdata, livedata) ==
    LET looped == LiveLoop(SeedLoop(EmptyDict, locationdata), locationdata,
                           livedata, Len(livedata))
    IN  [merged   |-> ForwardFill(SortItems(looped.merged)),
         livedata |-> looped.livedata]

-----------------------------------------------------------------------------
(* The XML elements: create_lap, create_trackpoint, build_xml *)

\* XML.Element / XML.SubElement: a tag, its attributes, its text, its children
El(tag, attrib, text, children) ==
    [tag |-> tag, attrib |-> attrib, text |-> text, children |-> children]

Leaf(tag, text) == El(tag, <<>>, text, <<>>)

\* a string read from the CSV file is truthy when it is not empty
NonEmpty(s) == s # <<>>

\* the string "0.0"
ZeroString == <<0, 0>>

\* str(int(duration) / 1000): seconds and the remaining thousandths
SecondsText(duration) == <<duration[1] \div MsPerSecond, duration[1] % MsPerSecond>>

\* int(round(float(s), 0)): Python rounds a half to the even neighbour
RoundedText(s) ==
    LET w == s[1]
        t == s[2]
    IN  <<IF t < 5 THEN w
          ELSE IF t > 5 THEN w + 1
          ELSE IF w % 2 = 0 THEN w ELSE w + 1>>

\* str(int(float(s)))
IntText(s) == <<s[1]>>

Opt(cond, el) == IF cond THEN <<el>> ELSE <<>>

AverageHeartRateGate(avg_hr, max_hr) == NonEmpty(avg_hr) /\ avg_hr # ZeroString

MaximumHeartRateGate(avg_hr, max_hr) == NonEmpty(max_hr) /\ avg_hr # ZeroString

create_lap(start_time, duration, distance, calories, avg_hr, max_hr, avg_speed, max_speed, avg_cadence, max_cadence) ==
    El("Lap", [StartTime |-> start_time], <<>>,
          Opt(NonEmpty(duration), Leaf("TotalTimeSeconds", SecondsText(duration)))
       \o Opt(NonEmpty(distance), Leaf("DistanceMeters", distance))
       \o Opt(NonEmpty(max_speed), Leaf("MaximumSpeed", max_speed))
       \o Opt(NonEmpty(calories), Leaf("Calories", RoundedText(calories)))
       \o Opt(AverageHeartRateGate(avg_hr, max_hr),
              El("AverageHeartRateBpm", <<>>, <<>>, <<Leaf("Value", IntText(avg_hr))>>))
       \o Opt(MaximumHeartRateGate(avg_hr, max_hr),
              El("MaximumHeartRateBpm", <<>>, <<>>, <<Leaf("Value", IntText(max_hr))>>))
       \o <<Leaf("Intensity", <<"Active">>), Leaf("TriggerMethod", <<"Manual">>)>>
       \o Opt(NonEmpty(avg_speed) \/ NonEmpty(avg_cadence) \/ NonEmpty(max_cadence),
              El("Extensions", <<>>, <<>>,
                 <<El("ns3:LX", <<>>, <<>>,
                         Opt(NonEmpty(avg_speed) /\ avg_speed # ZeroString,
                             Leaf("ns3:AvgSpeed", avg_speed))
                      \o Opt(NonEmpty(avg_cadence) /\ avg_cadence # ZeroString,
                             Leaf("ns3:AvgRunCadence", avg_cadence))
                      \o Opt(NonEmpty(max_cadence) /\ max_cadence # ZeroString,
                             Leaf("ns3:MaxRunCadence", max_cadence)))>>)))

\* lines 177-180
PositionGate(d) == GetTruthy(d, "altitude") /\ GetTruthy(d, "longitude")

\* lines 175-191: the children of the <Trackpoint>
TrackpointChildren(d) ==
       <<Leaf("Time", <<d.time>>)>>
    \o Opt(PositionGate(d),
           El("Position", <<>>, <<>>,
              <<Leaf("LatitudeDegrees", <<d.latitude>>),
                Leaf("LongitudeDegrees", <<d.longitude>>)>>))
    \o Opt(GetTruthy(d, "heart_rate"),
           El("HeartRateBpm", <<>>, <<>>, <<Leaf("Value", <<d.heart_rate>>)>>))
    \o Opt(GetTruthy(d, "cadence"), Leaf("Cadence", <<d.cadence>>))

\* TrackpointOrNone without the test for an empty trackpoint
TrackpointNeverNone(children) == El("Trackpoint", <<>>, <<>>, children)

\* lines 199-201
TrackpointOrNone(children) ==
    IF Len(children) = 1 THEN None
    ELSE El("Trackpoint", <<>>, <<>>, children)

create_trackpoint(d) == TrackpointOrNone(TrackpointChildren(d))

create_activity(id, sport) ==
    El("Activity", [Sport |-> sport], <<>>, <<Leaf("Id", <<id>>)>>)

convert_activity_type(stype) ==
    IF stype = "1002" THEN "Running"
    ELSE IF stype = "11007" THEN "Biking"
    ELSE "Other"

\* lines 250-253
RECURSIVE TrackOf(_)
TrackOf(tps) ==
    IF tps = <<>> THEN <<>>
    ELSE (IF Head(tps) # None THEN <<Head(tps)>> ELSE <<>>) \o TrackOf(Tail(tps))

\* lines 255-257: the lap after build_xml (the track is appended to it)
LapWithTrack(l, tps) ==
    IF Len(TrackOf(tps)) > 0
    THEN [l EXCEPT !.children = Append(@, El("Track", <<>>, <<>>, TrackOf(tps)))]
    ELSE l

\* XML.tostring(root, encoding="utf-8", xml_declaration=True)
tostring(root) == [declaration |-> "utf-8", root |-> root]

build_xml(a_id, ex_type, l, tps) ==
    tostring(
        El("TrainingCenterDatabase", [version |-> "1.1"], <<>>,
           <<El("Activities", <<>>, <<>>,
                <<[create_activity(a_id, ex_type) EXCEPT
                      !.children = Append(@, LapWithTrack(l, tps))]>>)>>))

\* reading the document back: the <Lap> of a serialized document
LapOf(doc) == doc.root.children[1].children[1].children[2]

Tags(el) == [i \in 1..Len(el.children) |-> el.children[i].tag]

HasChild(el, tag) == \E i \in 1..Len(el.children) : el.children[i].tag = tag

Child(el, tag) ==
    el.children[CHOOSE i \in 1..Len(el.children) : el.children[i].tag = tag]

-----------------------------------------------------------------------------
(* prepare_exercise_data, write_to_file and the driver loop *)

\* the session the loop is at (the global ex, which is also the argument)
Ex == exercises[idx]

\* exercise["start_time"].replace(" ", "T") + "Z"
LapTime(start_time) == <<start_time[1], "T", start_time[3], "Z">>

\* ex["start_time"][0:10]
DateCode(start_time) == start_time[1]

\* a flag of the summary row is a string: truthy when not empty
FlagSet(flag) == flag # ""

Locals == <<lap, live_data, location_data, data, trackpoints>>

\* lines 376-390
CreateLap ==
    /\ pc = "prepare"
    /\ lap' = create_lap(LapTime(Ex.start_time), Ex.duration, Ex.distance,
                         Ex.total_calorie, Ex.mean_heart_rate, Ex.max_heart_rate,
                         Ex.mean_speed, Ex.max_speed, Ex.mean_cadence,
                         Ex.max_cadence)
    /\ pc' = "fetch_live"
    /\ UNCHANGED <<exercises, disk, idx, live_data, location_data, data,
                   trackpoints, xml, exports, call, ret>>

\* FetchLiveData without the test of the flag: the file is read if it is there
FetchLiveDataIgnoringFlag ==
    /\ pc = "fetch_live"
    /\ live_data' = disk[Ex.datauuid].live.samples
    /\ pc' = "fetch_location"
    /\ UNCHANGED <<exercises, disk, idx, lap, location_data, data,
                   trackpoints, xml, exports, call, ret>>

\* lines 392-394
FetchLiveData ==
    /\ pc = "fetch_live"
    /\ FlagSet(Ex.live_data) => disk[Ex.datauuid].live.readable
    /\ live_data' = IF FlagSet(Ex.live_data)
                    THEN disk[Ex.datauuid].live.samples
                    ELSE <<>>
    /\ pc' = "fetch_location"
    /\ UNCHANGED <<exercises, disk, idx, lap, location_data, data,
                   trackpoints, xml, exports, call, ret>>

\* lines 78-79: open() or json.load() raises
FetchLiveDataRaises ==
    /\ pc = "fetch_live"
    /\ FlagSet(Ex.live_data)
    /\ ~disk[Ex.datauuid].live.readable
    /\ pc' = "crashed in fetch_live_data"
    /\ UNCHANGED <<exercises, disk, idx, lap, live_data, location_data, data,
                   trackpoints, xml, exports, call, ret>>

\* lines 396-398
FetchLocationData ==
    /\ pc = "fetch_location"
    /\ FlagSet(Ex.location_data) => disk[Ex.datauuid].loc.readable
    /\ location_data' = IF FlagSet(Ex.location_data)
                        THEN disk[Ex.datauuid].loc.samples
                        ELSE <<>>
    /\ pc' = "merge"
    /\ UNCHANGED <<exercises, disk, idx, lap, live_data, data,
                   trackpoints, xml, exports, call, ret>>

\* lines 91-92: open() or json.load() raises
FetchLocationDataRaises ==
    /\ pc = "fetch_location"
    /\ FlagSet(Ex.location_data)
    /\ ~disk[Ex.datauuid].loc.readable
    /\ pc' = "crashed in fetch_location_data"
    /\ UNCHANGED <<exercises, disk, idx, lap, live_data, location_data, data,
                   trackpoints, xml, exports, call, ret>>

\* line 400
Merge ==
    /\ pc = "merge"
    /\ FirstRaising(live_data) = 0
    /\ LET r == merge_location_and_live_data(location_data, live_data)
       IN  /\ data' = r.merged
           /\ live_data' = r.livedata
    /\ pc' = "trackpoints"
    /\ UNCHANGED <<exercises, disk, idx, lap, location_data,
                   trackpoints, xml, exports, call, ret>>

\* the name of the file of the session
FileName(e) == <<e.exercise_type, DateCode(e.start_time), e.datauuid>>

\* MergeRaises in a program that opens the output file before it prepares
\* the document
MergeRaisesAfterOpen ==
    /\ pc = "merge"
    /\ FirstRaising(live_data) # 0
    /\ live_data' = live_data
    /\ exports' = DictSet(exports, FileName(Ex), [text |-> None])
    /\ pc' = "crashed in merge_location_and_live_data"
    /\ UNCHANGED <<exercises, disk, idx, lap, location_data, data,
                   trackpoints, xml, call, ret>>

\* line 338 raises inside the merge: the entries before the bad one have
\* already been written back, the mapping is lost with the frame
MergeRaises ==
    /\ pc = "merge"
    /\ FirstRaising(live_data) # 0
    /\ live_data' = LiveLoop(SeedLoop(EmptyDict, location_data), location_data,
                             live_data, FirstRaising(live_data) - 1).livedata
    /\ pc' = "crashed in merge_location_and_live_data"
    /\ UNCHANGED <<exercises, disk, idx, lap, location_data, data,
                   trackpoints, xml, exports, call, ret>>

\* lines 401-403: for d in data, in the order of the dict
CreateTrackpoints ==
    /\ pc = "trackpoints"
    /\ trackpoints' = [i \in 1..Len(data.order) |->
                          create_trackpoint(data.val[data.order[i]])]
    /\ pc' = "build"
    /\ UNCHANGED <<exercises, disk, idx, lap, live_data, location_data, data,
                   xml, exports, call, ret>>

\* line 405 (and line 427: the result is bound to xml)
BuildXml ==
    /\ pc = "build"
    /\ xml' = build_xml(LapTime(Ex.start_time),
                        convert_activity_type(Ex.exercise_type), lap, trackpoints)
    /\ lap' = LapWithTrack(lap, trackpoints)
    /\ pc' = "write"
    /\ UNCHANGED <<exercises, disk, idx, live_data, location_data, data,
                   trackpoints, exports, call, ret>>

\* xml.decode()
decode(doc) == [text |-> doc.root]

\* lines 408-413 (called at line 429)
WriteToFile ==
    /\ pc = "write"
    /\ exports' = DictSet(exports, FileName(Ex), decode(xml))
    /\ pc' = "next"
    /\ UNCHANGED <<exercises, disk, idx, Locals, xml, call, ret>>

\* open() raises (nothing is created), or write() raises after open() has
\* created or truncated the file
WriteToFileRaises ==
    /\ pc = "write"
    /\ \/ UNCHANGED exports
       \/ exports' = DictSet(exports, FileName(Ex), [text |-> None])
    /\ pc' = "crashed in write_to_file"
    /\ UNCHANGED <<exercises, disk, idx, Locals, xml, call, ret>>

\* line 425: the loop takes the next session, or ends (line 431)
NextExercise ==
    /\ pc \in {"loop", "next"}
    /\ idx' = idx + 1
    /\ pc' = IF idx < Len(exercises) THEN "prepare" ELSE "done"
    /\ lap' = None
    /\ live_data' = <<>>
    /\ location_data' = <<>>
    /\ data' = EmptyDict
    /\ trackpoints' = <<>>
    /\ UNCHANGED <<exercises, disk, xml, exports, call, ret>>

-----------------------------------------------------------------------------
(* Idle values of the variables a specification does not use *)

IdlePipeline ==
    /\ exercises = <<>>
    /\ disk = <<>>
    /\ idx = 0
    /\ lap = None
    /\ live_data = <<>>
    /\ location_data = <<>>
    /\ data = EmptyDict
    /\ trackpoints = <<>>
    /\ xml = None
    /\ exports = <<>>

IdleCall ==
    /\ call = None
    /\ ret = None

-----------------------------------------------------------------------------
(* The inputs: summary rows and sample files *)

SeqsUpTo(S, n) == UNION {[1..k -> S] : k \in 0..n}

\* a location sample without and with an altitude
PositionKinds ==
    {[latitude |-> 10, longitude |-> 20],
     [latitude |-> 10, longitude |-> 20, altitude |-> 5]}

LocationSamples == {DictSet(p, "start_time", t) : p \in PositionKinds, t \in Times}

\* live samples: heart rates are in half beats (3 is 1.5 bpm, 1 is 0.5 bpm)
LiveKinds ==
    {[heart_rate |-> 3],
     [heart_rate |-> 5, cadence |-> 90, distance |-> 7, speed |-> 3],
     [cadence |-> 80],
     [heart_rate |-> 1, cadence |-> 0]}

LiveSamples == {DictSet(k, "start_time", t) : k \in LiveKinds, t \in Times}

-----------------------------------------------------------------------------
(* SpecMerge: merge_location_and_live_data called on its own; call keeps   *)
(* the arguments as they were passed                                       *)

InitMerge ==
    /\ exercises = <<>>
    /\ disk = <<>>
    /\ idx = 0
    /\ pc = "merge"
    /\ lap = None
    /\ \E a \in 0..MaxSamples : \E b \in 0..(MaxSamples - a) :
       \E loc \in [1..a -> LocationSamples], live \in [1..b -> LiveSamples] :
          /\ location_data = loc
          /\ live_data = live
          /\ call = [locationdata |-> loc, livedata |-> live]
    /\ ret = None
    /\ data = EmptyDict
    /\ trackpoints = <<>>
    /\ xml = None
    /\ exports = <<>>

NextMerge == Merge

SpecMerge == InitMerge /\ [][NextMerge]_vars

\* merge_location_and_live_data has returned
Merged == pc = "trackpoints"

\* the live samples as they were passed
RawLive == call.livedata

PositionalTimes == {location_data[i].start_time : i \in 1..Len(location_data)}

\* a positional timestamp at minimal distance from ts
NearestPositional(t, ts) ==
    /\ t \in PositionalTimes
    /\ \A c \in PositionalTimes : Abs(t - ts) <= Abs(c - ts)

\* C2: with a non-empty positional sequence every key of the reconciled
\* mapping is a positional timestamp, and a live sample whose raw timestamp
\* is not positional is stored under a positional timestamp nearest to it.
C2_SnappedToNearestPosition ==
    (Merged /\ location_data # <<>>) =>
        /\ Keys(data) \subseteq PositionalTimes
        /\ \A i \in 1..Len(RawLive) :
              RawLive[i].start_time \notin PositionalTimes =>
                  NearestPositional(live_data[i].start_time, RawLive[i].start_time)

\* the value the merge reads from a raw live sample for a field
Reading(entry, key) ==
    IF key = "heart_rate" THEN IntOf(entry[key]) ELSE entry[key]

\* the raw live sample carries a truthy value for the field
HasReading(entry, key) == HasKey(entry, key) /\ Truthy(Reading(entry, key))

HasAnyReading(entry) == \E j \in 1..Len(LiveKeys) : HasReading(entry, LiveKeys[j])

\* C3 as stated: with an empty positional sequence every live sample's raw
\* timestamp is a key of the reconciled mapping.
C3_EveryLiveTimestampIsKey ==
    (Merged /\ location_data = <<>>) =>
        \A i \in 1..Len(RawLive) : RawLive[i].start_time \in Keys(data)

\* C3 amended: with an empty positional sequence no timestamp is shifted, and
\* the keys of the reconciled mapping are exactly the raw timestamps of the
\* live samples that carry at least one truthy field.
C3_KeysAreUnshiftedReadings ==
    (Merged /\ location_data = <<>>) =>
        /\ \A i \in 1..Len(RawLive) : live_data[i].start_time = RawLive[i].start_time
        /\ Keys(data) = {RawLive[i].start_time :
                            i \in {j \in 1..Len(RawLive) : HasAnyReading(RawLive[j])}}

C3_Witness ==
    /\ Merged
    /\ location_data = <<>>
    /\ \E i, j \in 1..Len(RawLive) :
          /\ HasAnyReading(RawLive[i])
          /\ ~HasAnyReading(RawLive[j])
          /\ RawLive[i].start_time # RawLive[j].start_time

\* the live samples stored under key k that carry a truthy value for field f
Writers(k, f) ==
    {i \in 1..Len(RawLive) : live_data[i].start_time = k /\ HasReading(RawLive[i], f)}

\* the keys at or before k that got a heart rate of their own
OwnHeartRateUpTo(k) == {j \in Keys(data) : j <= k /\ Writers(j, "heart_rate") # {}}

\* C4: every observation has a heart_rate, equal to the heart rate written at
\* the latest key at or before it that got one from a live sample, else 0.
C4_ForwardFilledHeartRate ==
    Merged =>
        \A k \in Keys(data) :
            /\ HasKey(data.val[k], "heart_rate")
            /\ data.val[k].heart_rate =
                  IF OwnHeartRateUpTo(k) = {} THEN 0
                  ELSE LET j == Max(OwnHeartRateUpTo(k))
                       IN  Reading(RawLive[Min(Writers(j, "heart_rate"))], "heart_rate")

C4_Witness ==
    /\ Merged
    /\ \E k1, k2, k3 \in Keys(data) :
          /\ k1 < k2 /\ k2 < k3
          /\ Writers(k1, "heart_rate") = {} /\ data.val[k1].heart_rate = 0
          /\ Writers(k2, "heart_rate") # {}
          /\ Writers(k3, "heart_rate") = {}
          /\ data.val[k3].heart_rate = data.val[k2].heart_rate
          /\ data.val[k3].heart_rate # 0

\* the second loop after n live samples
AfterLive(n) ==
    LiveLoop(SeedLoop(EmptyDict, location_data), location_data, RawLive, n)

\* C5: a field written at a key keeps the value of the first live sample, in
\* input order, that was stored under the key with a truthy value for it:
\* after every number of processed samples, and in the returned mapping.
C5_FirstWriterWins ==
    Merged =>
        /\ \A k \in Keys(data) : \A j \in 1..Len(LiveKeys) :
              Writers(k, LiveKeys[j]) # {} =>
                  /\ HasKey(data.val[k], LiveKeys[j])
                  /\ data.val[k][LiveKeys[j]] =
                        Reading(RawLive[Min(Writers(k, LiveKeys[j]))], LiveKeys[j])
        /\ \A n \in 1..Len(RawLive) :
              LET before == AfterLive(n - 1).merged.val
                  after  == AfterLive(n).merged.val
              IN  \A k \in DOMAIN before : \A j \in 1..Len(LiveKeys) :
                      HasKey(before[k], LiveKeys[j]) =>
                          /\ HasKey(after[k], LiveKeys[j])
                          /\ after[k][LiveKeys[j]] = before[k][LiveKeys[j]]

C5_Witness ==
    /\ Merged
    /\ \E k \in Keys(data) : \E i, j \in Writers(k, "heart_rate") :
          /\ i < j
          /\ RawLive[i].start_time # RawLive[j].start_time
          /\ Reading(RawLive[i], "heart_rate") # Reading(RawLive[j], "heart_rate")

\* C13 as stated: after the call every positional and every physiological
\* sample has the timestamp and the field values it was passed with.
C13_InputsUnchanged ==
    Merged =>
        /\ location_data = call.locationdata
        /\ live_data = RawLive

\* C13: the call leaves the positional samples as they were passed; of a
\* physiological sample it rewrites, in place, start_time (to the result of
\* find_nearest_time when positional samples exist and the raw timestamp is
\* none of theirs, else to itself) and heart_rate (to its integer part), and
\* nothing else.
C13_OnlyLiveTimestampAndHeartRateRewritten ==
    Merged =>
        /\ location_data = call.locationdata
        /\ Len(live_data) = Len(RawLive)
        /\ \A i \in 1..Len(RawLive) :
              LET raw == RawLive[i]
                  now == live_data[i]
              IN  /\ DOMAIN now = DOMAIN raw
                  /\ \A k \in DOMAIN raw \ {"start_time", "heart_rate"} : now[k] = raw[k]
                  /\ HasKey(raw, "heart_rate") => now.heart_rate = IntOf(raw.heart_rate)
                  /\ now.start_time =
                        IF location_data = <<>> \/ raw.start_time \in PositionalTimes
                        THEN raw.start_time
                        ELSE find_nearest_time(raw.start_time, location_data)

C13_Witness ==
    /\ Merged
    /\ \E i \in 1..Len(RawLive) :
          /\ live_data[i].start_time # RawLive[i].start_time
          /\ live_data[i].start_time \in PositionalTimes
          /\ HasKey(RawLive[i], "heart_rate")
          /\ live_data[i].heart_rate # RawLive[i].heart_rate
          /\ HasKey(RawLive[i], "cadence")

-----------------------------------------------------------------------------
(* Spec: the program, on a summary list of up to MaxSessions sessions      *)

File(samples) == [readable |-> TRUE, samples |-> samples]

NoFile == [readable |-> FALSE, samples |-> <<>>]

Flagged(flag, file) == [flag |-> flag, file |-> file]

GoodLive == [start_time |-> 2 * TickMs, heart_rate |-> 3]

BadLive == [start_time |-> 3 * TickMs, heart_rate |-> Malformed]

\* the live_data column of a row and the live file of the session
LiveOptions ==
    {Flagged("", NoFile),
     Flagged("", File(<<GoodLive>>)),
     Flagged("x.live_data.json", NoFile),
     Flagged("x.live_data.json", File(<<GoodLive>>)),
     Flagged("x.live_data.json", File(<<GoodLive, BadLive>>))}

WithAltitude == [start_time |-> TickMs, latitude |-> 10, longitude |-> 20, altitude |-> 5]

WithoutAltitude == [start_time |-> 2 * TickMs, latitude |-> 10, longitude |-> 20]

\* a second sample at the timestamp of WithoutAltitude, with an altitude
Duplicate == [start_time |-> 2 * TickMs, latitude |-> 11, longitude |-> 21, altitude |-> 6]

\* a sample on the prime meridian
Meridian == [start_time |-> 3 * TickMs, latitude |-> 10, longitude |-> 0, altitude |-> 5]

\* the location_data column of a row and the location file of the session
LocationOptions ==
    {Flagged("", NoFile),
     Flagged("x.location_data.json", NoFile),
     Flagged("x.location_data.json", File(<<WithoutAltitude>>)),
     Flagged("x.location_data.json", File(<<WithAltitude, WithoutAltitude>>)),
     Flagged("x.location_data.json", File(<<WithoutAltitude, Duplicate>>)),
     Flagged("x.location_data.json", File(<<Meridian>>))}

\* a row of the summary list; the flags name the JSON files or are empty
Row(uuid, live_flag, location_flag) ==
    [datauuid        |-> uuid,
     start_time      |-> <<"2020-01-01", " ", "10:00:00.000">>,
     total_calorie   |-> <<12, 5>>,
     duration        |-> <<60000>>,
     exercise_type   |-> "1002",
     mean_heart_rate |-> <<70, 0>>,
     max_heart_rate  |-> <<150, 0>>,
     mean_speed      |-> <<2, 5>>,
     max_speed       |-> <<3, 0>>,
     mean_cadence    |-> <<>>,
     max_cadence     |-> <<>>,
     distance        |-> <<1000, 5>>,
     location_data   |-> location_flag,
     live_data       |-> live_flag]

Init ==
    /\ IdleCall
    /\ idx = 0
    /\ pc = "loop"
    /\ \E n \in 0..MaxSessions :
       \E live \in [1..n -> LiveOptions], loc \in [1..n -> LocationOptions] :
          /\ exercises = [i \in 1..n |-> Row(i, live[i].flag, loc[i].flag)]
          /\ disk = [i \in 1..n |-> [live |-> live[i].file, loc |-> loc[i].file]]
    /\ lap = None
    /\ live_data = <<>>
    /\ location_data = <<>>
    /\ data = EmptyDict
    /\ trackpoints = <<>>
    /\ xml = None
    /\ exports = <<>>

Next ==
    \/ NextExercise
    \/ CreateLap
    \/ FetchLiveData
    \/ FetchLiveDataRaises
    \/ FetchLocationData
    \/ FetchLocationDataRaises
    \/ Merge
    \/ MergeRaises
    \/ CreateTrackpoints
    \/ BuildXml
    \/ WriteToFile
    \/ WriteToFileRaises

Spec == Init /\ [][Next]_vars

Built == pc = "write"

\* the location samples that seed an observation for which create_trackpoint
\* emits a <Position>
SeedsPosition(i) ==
    /\ PositionGate(location_data[i])
    /\ \A j \in 1..(i - 1) : location_data[j].start_time # location_data[i].start_time

\* C7 as stated: a session without the live-data flag gets no <Track>.
C7_NoTrackWithoutLiveData ==
    (Built /\ ~FlagSet(Ex.live_data)) => ~HasChild(LapOf(xml), "Track")

\* C7 amended: a session without the live-data flag gets a <Track> exactly
\* when one of its location samples yields a trackpoint with a <Position>;
\* with no location sample loaded there is no <Track>.
C7_TrackFromPositionsAlone ==
    (Built /\ ~FlagSet(Ex.live_data)) =>
        (HasChild(LapOf(xml), "Track")
            <=> \E i \in 1..Len(location_data) : SeedsPosition(i))

C7_Witness ==
    /\ Built
    /\ ~FlagSet(Ex.live_data)
    /\ disk[Ex.datauuid].live.samples # <<>>
    /\ idx = 2
    /\ \E i, j \in 1..Len(location_data) : SeedsPosition(i) /\ ~PositionGate(location_data[j])
    /\ Len(Child(LapOf(xml), "Track").children) = 1

\* the run has ended with a traceback
Crashed ==
    pc \in {"crashed in fetch_live_data", "crashed in fetch_location_data",
            "crashed in merge_location_and_live_data", "crashed in write_to_file"}

\* the files of session i are there and well-formed
Sound(i) ==
    /\ FlagSet(exercises[i].live_data) =>
          /\ disk[i].live.readable
          /\ FirstRaising(disk[i].live.samples) = 0
    /\ FlagSet(exercises[i].location_data) => disk[i].loc.readable

Written(i) == FileName(exercises[i]) \in DOMAIN exports

\* C8: when the run has ended, every session whose own processing did not
\* fail has its document written, the sessions after a failing one included.
C8_FailureIsolated ==
    pc \in {"done", "crashed in merge_location_and_live_data",
            "crashed in write_to_file"} =>
        \A i \in 1..Len(exercises) : (i # idx /\ Sound(i)) => Written(i)

\* the <Id> of the document
IdOf(doc) == doc.root.children[1].children[1].children[1].text

\* C9: a file is written only by write_to_file, for the current session, once
\* xml holds the session's complete document; every other file is left as it
\* is, and a failure before write_to_file changes no file at all.
C9_WrittenOnlyOnceBuilt ==
    [][/\ exports' # exports =>
             /\ pc = "write"
             /\ xml # None
             /\ IdOf(xml) = <<LapTime(Ex.start_time)>>
             /\ LapOf(xml) = lap
             /\ DOMAIN exports' = DOMAIN exports \cup {FileName(Ex)}
             /\ \A f \in DOMAIN exports :
                   f # FileName(Ex) => exports'[f] = exports[f]
       /\ (Crashed' /\ pc # "write") => exports' = exports]_vars

C9_Witness ==
    /\ pc = "crashed in merge_location_and_live_data"
    /\ idx = 2
    /\ ~Sound(2)
    /\ Written(1)
    /\ exports[FileName(exercises[1])].text # None
    /\ ~Written(2)

-----------------------------------------------------------------------------
(* SpecTrackpoint: create_trackpoint and build_xml on arbitrary observations *)

OptionalField(name, values) == {<<>>} \cup {DictSet(<<>>, name, v) : v \in values}

\* d1 | d2 on dicts with disjoint keys
Both(d1, d2) ==
    [k \in DOMAIN d1 \cup DOMAIN d2 |-> IF k \in DOMAIN d1 THEN d1[k] ELSE d2[k]]

\* the observations without their time: heart rates are whole beats here
\* (in half beats), as the merge leaves them
ObservationFields ==
    {Both(Both(p, a), Both(Both(h, c), x)) :
        p \in {<<>>, [latitude |-> 10, longitude |-> 20]},
        a \in OptionalField("altitude", {5}),
        h \in OptionalField("heart_rate", {0, 240}),
        c \in OptionalField("cadence", {90}),
        x \in OptionalField("distance", {7})}

InitTrackpoint ==
    /\ IdleCall
    /\ idx = 1
    /\ pc = "trackpoints"
    /\ exercises = <<Row(1, "x.json", "x.json")>>
    /\ disk = <<[live |-> NoFile, loc |-> NoFile]>>
    /\ lap = create_lap(LapTime(Ex.start_time), Ex.duration, Ex.distance,
                        Ex.total_calorie, Ex.mean_heart_rate, Ex.max_heart_rate,
                        Ex.mean_speed, Ex.max_speed, Ex.mean_cadence, Ex.max_cadence)
    /\ live_data = <<>>
    /\ location_data = <<>>
    /\ \E obs \in SeqsUpTo(ObservationFields, MaxObs) :
          data = [order |-> [i \in 1..Len(obs) |-> i * TickMs],
                  val   |-> [k \in {i * TickMs : i \in 1..Len(obs)} |->
                                DictSet(obs[k \div TickMs], "time", FormatTime(k))]]
    /\ trackpoints = <<>>
    /\ xml = None
    /\ exports = <<>>

NextTrackpoint == CreateTrackpoints \/ BuildXml

SpecTrackpoint == InitTrackpoint /\ [][NextTrackpoint]_vars

\* the observation carries nothing beyond its time (a heart_rate of 0, which
\* the forward fill puts where no heart rate was seen, is no reading)
Bare(d) ==
    /\ DOMAIN d \subseteq {"time", "heart_rate"}
    /\ ~GetTruthy(d, "heart_rate")

TrackpointsOfDocument ==
    IF HasChild(LapOf(xml), "Track") THEN Child(LapOf(xml), "Track").children ELSE <<>>

\* C6: no trackpoint of the emitted <Track> holds a <Time> alone, and an
\* observation that carries nothing beyond its time becomes None and is not
\* appended: the <Track> holds exactly the trackpoints that are not None.
C6_NoBareTrackpoint ==
    Built =>
        /\ \A i \in 1..Len(TrackpointsOfDocument) :
              /\ TrackpointsOfDocument[i].tag = "Trackpoint"
              /\ \E j \in 1..Len(TrackpointsOfDocument[i].children) :
                    TrackpointsOfDocument[i].children[j].tag # "Time"
        /\ \A i \in 1..Len(data.order) :
              Bare(data.val[data.order[i]]) => trackpoints[i] = None
        /\ Len(TrackpointsOfDocument) =
              Cardinality({i \in 1..Len(trackpoints) : trackpoints[i] # None})

C6_Witness ==
    /\ Built
    /\ \E i \in 1..Len(data.order) :
          /\ DOMAIN data.val[data.order[i]] = {"time"}
          /\ trackpoints[i] = None
    /\ Len(TrackpointsOfDocument) = 1

\* the observation d without the field key
Without(d, key) == [k \in DOMAIN d \ {key} |-> d[k]]

EmitsPosition(tp) ==
    /\ tp # None
    /\ HasChild(tp, "Position")
    /\ Tags(Child(tp, "Position")) = <<"LatitudeDegrees", "LongitudeDegrees">>

\* C12: the trackpoint of an observation has a <Position> (LatitudeDegrees,
\* LongitudeDegrees) exactly when the observation carries a latitude and a
\* longitude; the trackpoint is the same with and without the observation's
\* altitude, and it never has an <AltitudeMeters>.
C12_PositionFromLatitudeAndLongitude ==
    pc \in {"build", "write"} =>
        \A i \in 1..Len(data.order) :
            LET d  == data.val[data.order[i]]
                tp == trackpoints[i]
            IN  /\ EmitsPosition(tp) <=> (HasKey(d, "latitude") /\ HasKey(d, "longitude"))
                /\ tp = create_trackpoint(Without(d, "altitude"))
                /\ tp # None => ~HasChild(tp, "AltitudeMeters")

-----------------------------------------------------------------------------
(* SpecLap: create_lap called on its own *)

HeartRateStrings == {<<>>, ZeroString, <<72, 5>>}

InitLap ==
    /\ IdlePipeline
    /\ pc = "call"
    /\ ret = None
    /\ \E duration \in {<<>>, <<1500>>}, distance \in {<<>>, <<1000, 5>>},
          calories \in {<<>>, <<12, 5>>, <<13, 5>>},
          avg_hr \in HeartRateStrings, max_hr \in HeartRateStrings,
          avg_speed \in {<<>>, ZeroString, <<2, 5>>}, max_speed \in {<<>>, ZeroString},
          avg_cadence \in {<<>>, <<80, 0>>}, max_cadence \in {<<>>, ZeroString} :
          call = [start_time  |-> LapTime(<<"2020-01-01", " ", "10:00:00.000">>),
                  duration    |-> duration,
                  distance    |-> distance,
                  calories    |-> calories,
                  avg_hr      |-> avg_hr,
                  max_hr      |-> max_hr,
                  avg_speed   |-> avg_speed,
                  max_speed   |-> max_speed,
                  avg_cadence |-> avg_cadence,
                  max_cadence |-> max_cadence]

CallCreateLap ==
    /\ pc = "call"
    /\ ret' = create_lap(call.start_time, call.duration, call.distance,
                         call.calories, call.avg_hr, call.max_hr, call.avg_speed,
                         call.max_speed, call.avg_cadence, call.max_cadence)
    /\ pc' = "returned"
    /\ UNCHANGED <<call, pipeline_vars>>

NextLap == CallCreateLap

SpecLap == InitLap /\ [][NextLap]_vars

\* the element is there exactly when s is neither "" nor "0.0", and then its
\* <Value> is the integer part of s
GatedOnOwnValue(tag, s) ==
    /\ HasChild(ret, tag) <=> (s # <<>> /\ s # ZeroString)
    /\ HasChild(ret, tag) => Child(ret, tag).children[1].text = <<s[1]>>

\* C10: AverageHeartRateBpm is present iff avg_hr is neither empty nor "0.0",
\* MaximumHeartRateBpm iff max_hr is neither empty nor "0.0", and each value
\* is rendered as an integer.
C10_HeartRateGatedOnOwnValue ==
    pc = "returned" =>
        /\ GatedOnOwnValue("AverageHeartRateBpm", call.avg_hr)
        /\ GatedOnOwnValue("MaximumHeartRateBpm", call.max_hr)

\* the children the docstring of create_lap requires of every <Lap>
RequiredLapTags ==
    <<"TotalTimeSeconds", "DistanceMeters", "Calories", "Intensity", "TriggerMethod">>

IsRequiredLapTag(tag) == \E i \in 1..Len(RequiredLapTags) : RequiredLapTags[i] = tag

\* C11: whatever the summary fields are (empty strings included), the <Lap>
\* returned by create_lap has the five children TotalTimeSeconds,
\* DistanceMeters, Calories, Intensity and TriggerMethod, in that order.
C11_LapHasRequiredChildren ==
    pc = "returned" => SelectSeq(Tags(ret), IsRequiredLapTag) = RequiredLapTags

-----------------------------------------------------------------------------
(* SpecNearest: find_nearest_time called on its own *)

Stamp(t) == [start_time |-> t]

InitNearest ==
    /\ IdlePipeline
    /\ pc = "call"
    /\ ret = None
    /\ \E ts \in Times, cs \in SeqsUpTo(Times, MaxCand) :
          /\ cs # <<>>
          /\ call = [ts |-> ts, data |-> [i \in 1..Len(cs) |-> Stamp(cs[i])]]

CallFindNearestTime ==
    /\ pc = "call"
    /\ ret' = [value |-> find_nearest_time(call.ts, call.data)]
    /\ pc' = "returned"
    /\ UNCHANGED <<call, pipeline_vars>>

NextNearest == CallFindNearestTime

SpecNearest == InitNearest /\ [][NextNearest]_vars

Candidates == {call.data[i].start_time : i \in 1..Len(call.data)}

\* C1: the result of find_nearest_time is a candidate at minimal distance
\* from ts, and the smallest such candidate.
C1_NearestIsClosestCandidate ==
    pc = "returned" =>
        /\ ret.value \in Candidates
        /\ \A c \in Candidates : Abs(ret.value - call.ts) <= Abs(c - call.ts)
        /\ \A c \in Candidates :
              Abs(c - call.ts) = Abs(ret.value - call.ts) => ret.value <= c

====
